---------------------------- MODULE Spec2Model ----------------------------
(***************************************************************************)
(* The "Extracting Annuli From Real Data" tutorial                         *)
(* (docs/tutorials/extractingdata.ipynb) as a state machine.               *)
(*                                                                         *)
(* The tutorial is a sequence of Python snippets run one after the other   *)
(* in one interpreter session:                                             *)
(*    generate the mask  ->  apply the mask  ->  get the velocity axis     *)
(*    ->  (when the spectral axis is a frequency) convert it to velocity.  *)
(* A snippet whose statement raises stops there: the names bound by its    *)
(* earlier statements stay bound, the later statements do not run, and     *)
(* the next snippet can still be run.                                      *)
(*                                                                         *)
(* A numpy array is a record [shape, flat]: its shape and its elements in  *)
(* row-major (C) order.  Real values are exact: radii, angles and header   *)
(* values are integers, velocities are fractions [num, den] with den > 0.  *)
(***************************************************************************)
EXTENDS Integers, Sequences, FiniteSets, TLC

VARIABLES cube, rvals, tvals, r_min, r_max, in_frequency,
          mask, spectra, theta, velax,
          pc, raised, runs, previous

vars == <<cube, rvals, tvals, r_min, r_max, in_frequency,
          mask, spectra, theta, velax, pc, raised, runs, previous>>

-----------------------------------------------------------------------------
(* Bounds of the model. *)

MaxChan == 2      \* velocity channels of the cube: 1..MaxChan
MaxSide == 3      \* pixels along each spatial axis: 1..MaxSide
MaxRadius == 2    \* r_min, r_max in 0..MaxRadius
MaxHeader == 1    \* crval3 in 0..MaxHeader+1, restfreq in 1..MaxHeader+1
MaxRuns == 2      \* times the snippets are run in one session

LightSpeed == 29979   \* 2.9979e8 m/s, in units of 1e4 m/s

-----------------------------------------------------------------------------
(* numpy *)

\* A name that is not bound (yet).  No ndarray looks like this: an array of
\* shape () holds one element.
Unbound == [shape |-> <<>>, flat |-> <<>>]

Bound(a) == a # Unbound

\* a.size
Size(a) == Len(a.flat)

\* a.ndim
Ndim(a) == Len(a.shape)

\* a.reshape(n, -1): the second length is inferred; the elements keep their
\* row-major order.
ReshapeRaises(a, n) == n = 0 \/ Size(a) % n # 0

Reshape(a, n) == [shape |-> <<n, Size(a) \div n>>, flat |-> a.flat]

\* a.flatten(): always one-dimensional.
Flatten(a) == [shape |-> <<Size(a)>>, flat |-> a.flat]

\* The positions of the True entries of a boolean sequence, ascending.
RECURSIVE Where(_, _)
Where(m, i) ==
    IF i > Len(m) THEN <<>>
    ELSE IF m[i] THEN <<i>> \o Where(m, i + 1) ELSE Where(m, i + 1)

\* a[m] for one-dimensional a and one-dimensional boolean m.
TakeRaises(a, m) == Ndim(a) < 1 \/ Size(m) # a.shape[1]

Take(a, m) ==
    LET idx == Where(m.flat, 1)
    IN  [shape |-> <<Len(idx)>>, flat |-> [k \in 1..Len(idx) |-> a.flat[idx[k]]]]

\* a[:, m] for a boolean m: two indices, so a needs two axes ("IndexError:
\* too many indices for array" otherwise), and m must be as long as axis 1.
TakeColumnsRaises(a, m) ==
    \/ Ndim(a) < 2
    \/ Size(m) # a.shape[2]

\* a[:, m] of a two-dimensional a: the columns where m is True, in order.
TakeColumns(a, m) ==
    LET idx  == Where(m.flat, 1)
        rows == a.shape[1]
        cols == a.shape[2]
        n    == Len(idx)
    IN  [shape |-> <<rows, n>>,
         flat  |-> [k \in 1..(rows * n) |->
                      a.flat[((k - 1) \div n) * cols + idx[((k - 1) % n) + 1]]]]

\* a.T of a two-dimensional a.
Transpose(a) ==
    LET rows == a.shape[1]
        cols == a.shape[2]
    IN  [shape |-> <<cols, rows>>,
         flat  |-> [k \in 1..(rows * cols) |->
                      a.flat[((k - 1) % rows) * cols + ((k - 1) \div rows) + 1]]]

\* a > v in place of a >= v: an annulus that leaves out its inner edge.
GreaterThan(a, v) == [shape |-> a.shape, flat |-> [k \in 1..Size(a) |-> a.flat[k] > v]]

\* a >= v, a <= v, np.logical_and(a, b): elementwise, the shape is kept.
GreaterEqual(a, v) == [shape |-> a.shape, flat |-> [k \in 1..Size(a) |-> a.flat[k] >= v]]

LessEqual(a, v) == [shape |-> a.shape, flat |-> [k \in 1..Size(a) |-> a.flat[k] <= v]]

LogicalAnd(a, b) == [shape |-> a.shape, flat |-> [k \in 1..Size(a) |-> a.flat[k] /\ b.flat[k]]]

\* np.arange(n)
Arange(n) == [shape |-> <<n>>, flat |-> [k \in 1..n |-> k - 1]]

-----------------------------------------------------------------------------
(* Exact fractions, for the values of the spectral axis. *)

Frac(n) == [num |-> n, den |-> 1]

FracEq(a, b) == a.num * b.den = b.num * a.den

FracLess(a, b) == a.num * b.den < b.num * a.den

\* c * (f - nu) / nu: the sign of the Doppler shift the wrong way round.
ToVelocityWrongSign(f, nu) == [num |-> LightSpeed * (f.num - nu * f.den), den |-> f.den * nu]

\* c * (nu - f) / nu for an integer nu > 0
ToVelocity(f, nu) == [num |-> LightSpeed * (nu * f.den - f.num), den |-> f.den * nu]

-----------------------------------------------------------------------------
(* The inputs: the cube, the deprojected pixel coordinates, the radii. *)

\* cube.data of a cube with M channels of Y by X pixels.  Every voxel holds
\* its own value 100*c + 10*y + x, so a value names the voxel it came from.
CubeData(M, Y, X) ==
    [shape |-> <<M, Y, X>>,
     flat  |-> [k \in 1..(M * Y * X) |->
                  100 * ((k - 1) \div (Y * X))
                  + 10 * (((k - 1) % (Y * X)) \div X)
                  + ((k - 1) % X)]]

Abs(n) == IF n < 0 THEN -n ELSE n

\* rvals as returned for a disk centred on pixel (y0, x0), shape (Y, X).
\* disk_coords itself is library code outside the tutorial: the radius maps
\* the model draws from are the city-block distances to the centre.
RadiusMap(Y, X, y0, x0) ==
    [shape |-> <<Y, X>>,
     flat  |-> [k \in 1..(Y * X) |->
                  Abs(((k - 1) \div X) - y0) + Abs(((k - 1) % X) - x0)]]

\* tvals for the same disk, shape (Y, X): every pixel has its own angle,
\* 10*dy + dx, so an angle names the pixel it came from.
AngleMap(Y, X, y0, x0) ==
    [shape |-> <<Y, X>>,
     flat  |-> [k \in 1..(Y * X) |->
                  10 * (((k - 1) \div X) - y0) + (((k - 1) % X) - x0)]]

\* cube.header, the keywords the snippets read.
Header(naxis3, crpix3, crval3, cdelt3, restfreq) ==
    [naxis3 |-> naxis3, crpix3 |-> crpix3, crval3 |-> crval3,
     cdelt3 |-> cdelt3, restfreq |-> restfreq]

\* The exception each snippet ended with in this run, "none" when it ran through.
Snippets == {"mask", "apply", "velax", "convert"}

NoneRaised == [s \in Snippets |-> "none"]

NoResults == [mask |-> Unbound, spectra |-> Unbound, theta |-> Unbound, velax |-> Unbound]

\* cube = rotationmap(path); rvals, tvals, _ = cube.disk_coords(...)
Loaded(M, Y, X, y0, x0, hdr) ==
    /\ cube = [data |-> CubeData(M, Y, X), header |-> hdr]
    /\ rvals = RadiusMap(Y, X, y0, x0)
    /\ tvals = AngleMap(Y, X, y0, x0)

\* Cubes of every shape and disk centre with every pair of radii; the header
\* agrees with the cube or declares one channel too many.
InitAnnuli ==
    \E M \in 1..MaxChan, Y \in 1..MaxSide, X \in 1..MaxSide :
      \E y0 \in 0..(Y - 1), x0 \in 0..(X - 1), extra \in 0..1 :
        /\ Loaded(M, Y, X, y0, x0, Header(M + extra, 1, 0, 1, 1))
        /\ r_min \in 0..MaxRadius
        /\ r_max \in 0..MaxRadius

\* One annulus of a square image with every header.
InitHeaders ==
    \E M \in 1..MaxChan, naxis3 \in 0..(MaxChan + 1), crpix3 \in 0..MaxChan,
       crval3 \in 0..(MaxHeader + 1), cdelt3 \in (-MaxHeader)..MaxHeader,
       restfreq \in 1..(MaxHeader + 1) :
        /\ Loaded(M, MaxSide, MaxSide, 0, 0, Header(naxis3, crpix3, crval3, cdelt3, restfreq))
        /\ r_min = 0
        /\ r_max = 1

Init ==
    /\ InitAnnuli \/ InitHeaders
    /\ in_frequency \in BOOLEAN
    /\ mask = Unbound
    /\ spectra = Unbound
    /\ theta = Unbound
    /\ velax = Unbound
    /\ pc = "mask"
    /\ raised = NoneRaised
    /\ runs = 1
    /\ previous = NoResults

inputs == <<cube, rvals, tvals, r_min, r_max, in_frequency>>

-----------------------------------------------------------------------------
(* The snippets. *)

\* mask = np.logical_and(rvals >= r_min, rvals <= r_max)
AnnulusMask(r, lo, hi) == LogicalAnd(GreaterEqual(r, lo), LessEqual(r, hi))

\* # Generate the mask.
GenerateMask ==
    /\ pc = "mask"
    /\ mask' = Flatten(AnnulusMask(rvals, r_min, r_max))
    /\ pc' = "apply"
    /\ UNCHANGED <<inputs, spectra, theta, velax, raised, runs, previous>>

\* spectra = cube.data.reshape(cube.data.shape[0], -1)
Channels(c) == Reshape(c.data, c.data.shape[1])

\* The operand of [:, mask] in
\* spectra = spectra.flatten()[:, mask].T
Indexed(s) == Flatten(s)

\* The snippet with the reshape done in place, on cube.data itself
\* (cube.data = cube.data.reshape(cube.data.shape[0], -1)).
ApplyMaskInPlace ==
    /\ pc = "apply"
    /\ pc' = "velax"
    /\ cube' = [cube EXCEPT !.data = Channels(cube)]
    /\ raised' = [raised EXCEPT !["apply"] = "IndexError"]
    /\ spectra' = Channels(cube)
    /\ UNCHANGED <<rvals, tvals, r_min, r_max, in_frequency, mask, theta, velax, runs, previous>>

\* # Apply the mask to the data.
\* Three statements; the first that raises ends the snippet.
ApplyMask ==
    /\ pc = "apply"
    /\ pc' = "velax"
    /\ UNCHANGED <<inputs, mask, velax, runs, previous>>
    /\ IF ReshapeRaises(cube.data, cube.data.shape[1])
       THEN /\ raised' = [raised EXCEPT !["apply"] = "ValueError"]
            /\ UNCHANGED <<spectra, theta>>
       ELSE IF TakeColumnsRaises(Indexed(Channels(cube)), mask)
       THEN /\ raised' = [raised EXCEPT !["apply"] = "IndexError"]
            /\ spectra' = Channels(cube)
            /\ UNCHANGED theta
       ELSE /\ spectra' = Transpose(TakeColumns(Indexed(Channels(cube)), mask))
            /\ IF TakeRaises(Flatten(tvals), mask)
               THEN /\ raised' = [raised EXCEPT !["apply"] = "IndexError"]
                    /\ UNCHANGED theta
               ELSE /\ theta' = Take(Flatten(tvals), mask)
                    /\ UNCHANGED raised

\* The number of entries of the axis: np.arange(cube.header['naxis3'])
AxisLength(c) == c.header.naxis3

\* The axis without the "+ 1.0": crpix3 taken as a 0-based index.
VelocityAxisZeroBased(c) ==
    LET n == AxisLength(c)
    IN  [shape |-> <<n>>,
         flat  |-> [k \in 1..n |->
                      Frac(c.header.crval3 + (k - 1 - c.header.crpix3) * c.header.cdelt3)]]

\* velax = np.arange(naxis3) - crpix3 + 1.0
\* velax = crval3 + velax * cdelt3
VelocityAxis(c) ==
    LET n     == AxisLength(c)
        first == [k \in 1..n |-> Arange(n).flat[k] - c.header.crpix3 + 1]
    IN  [shape |-> <<n>>,
         flat  |-> [k \in 1..n |-> Frac(c.header.crval3 + first[k] * c.header.cdelt3)]]

\* The snippet with a check of the header against the data in front of it.
GetVelaxChecked ==
    /\ pc = "velax"
    /\ pc' = "convert"
    /\ IF AxisLength(cube) # cube.data.shape[1]
       THEN /\ raised' = [raised EXCEPT !["velax"] = "ValueError"]
            /\ UNCHANGED velax
       ELSE /\ velax' = VelocityAxis(cube)
            /\ UNCHANGED raised
    /\ UNCHANGED <<inputs, mask, spectra, theta, runs, previous>>

\* # Get the velocity axis (assuming it is the third axis).
GetVelax ==
    /\ pc = "velax"
    /\ velax' = VelocityAxis(cube)
    /\ pc' = "convert"
    /\ UNCHANGED <<inputs, mask, spectra, theta, raised, runs, previous>>

\* nu = cube.header['restfreq']; velax = 2.9979e8 * (nu - velax) / nu
Converted(v, c) ==
    [shape |-> v.shape,
     flat  |-> [k \in 1..Size(v) |-> ToVelocity(v.flat[k], c.header.restfreq)]]

\* # Convert frequency to velocity: run when the spectral axis is a frequency.
ConvertFrequency ==
    /\ pc = "convert"
    /\ in_frequency
    /\ velax' = Converted(velax, cube)
    /\ pc' = "done"
    /\ UNCHANGED <<inputs, mask, spectra, theta, raised, runs, previous>>

\* "Remember to make sure this is velocity": nothing to do when it is.
KeepVelocity ==
    /\ pc = "convert"
    /\ ~in_frequency
    /\ pc' = "done"
    /\ UNCHANGED <<inputs, mask, spectra, theta, velax, raised, runs, previous>>

Results == [mask |-> mask, spectra |-> spectra, theta |-> theta, velax |-> velax]

\* The snippets are run again, in the same session, with the same geometry
\* and radii: every name keeps its binding until a statement rebinds it.
Rerun ==
    /\ pc = "done"
    /\ runs < MaxRuns
    /\ previous' = Results
    /\ runs' = runs + 1
    /\ raised' = NoneRaised
    /\ pc' = "mask"
    /\ UNCHANGED <<inputs, mask, spectra, theta, velax>>

Next ==
    \/ GenerateMask
    \/ ApplyMask
    \/ GetVelax
    \/ ConvertFrequency
    \/ KeepVelocity
    \/ Rerun

Spec == Init /\ [][Next]_vars

-----------------------------------------------------------------------------
(* Vocabulary of the properties. *)

\* M, the number of velocity channels: cube.data.shape[0]
NChan == cube.data.shape[1]

\* Y*X, the number of spatial pixels
NPix == rvals.shape[1] * rvals.shape[2]

\* Pixel p (row-major, 1-based) lies in the annulus.
InAnnulus(p) == r_min <= rvals.flat[p] /\ rvals.flat[p] <= r_max

\* The pixels of the annulus, in row-major order.
Annulus == Where([p \in 1..NPix |-> InAnnulus(p)], 1)

\* The cube's value in channel c at pixel p (both 1-based).
Voxel(c, p) == cube.data.flat[(c - 1) * NPix + p]

\* a[i][j] of a two-dimensional array (1-based).
At(a, i, j) == a.flat[(i - 1) * a.shape[2] + j]

\* Entry i (0-based) of the spectral axis the header describes.
AxisValue(i) == cube.header.crval3 + (i - cube.header.crpix3 + 1) * cube.header.cdelt3

\* The snippet has been run in this run of the tutorial.
Masked == pc \in {"apply", "velax", "convert", "done"}

Applied == pc \in {"velax", "convert", "done"}

AxisBuilt == pc \in {"convert", "done"}

\* The header describes the cube: as many channels as the data has.
ValidHeader == cube.header.naxis3 = NChan

-----------------------------------------------------------------------------
(* C1 *)

\* C1: after the extraction steps the length of theta equals the first
\* dimension of spectra and, for a header that describes the cube, the
\* length of velax equals the second dimension of spectra.
ShapesAgree ==
    (pc = "done" /\ ValidHeader) =>
        /\ Bound(theta)
        /\ Bound(spectra)
        /\ Ndim(spectra) = 2
        /\ Size(theta) = spectra.shape[1]
        /\ Size(velax) = spectra.shape[2]

-----------------------------------------------------------------------------
(* C2 *)

\* C2: the "apply the mask" statements run through without an exception
\* and leave spectra of shape (N, M), N the number of pixels of the annulus,
\* with spectra[k][c] the cube's value in channel c at the k-th such pixel.
ApplyYieldsSpectra ==
    Applied =>
        /\ raised["apply"] = "none"
        /\ spectra.shape = <<Len(Annulus), NChan>>
        /\ \A k \in 1..Len(Annulus), c \in 1..NChan :
              At(spectra, k, c) = Voxel(c, Annulus[k])

-----------------------------------------------------------------------------
(* C3 *)

\* C3: the flattened mask has one entry per spatial pixel, and the entry of
\* a pixel is True exactly when r_min <= rvals <= r_max there, both bounds
\* included.
MaskIsAnnulus ==
    Masked =>
        /\ mask.shape = <<NPix>>
        /\ Len(mask.flat) = NPix
        /\ \A p \in 1..NPix :
              /\ (rvals.flat[p] = r_min /\ r_min <= r_max) => mask.flat[p]
              /\ (rvals.flat[p] = r_max /\ r_min <= r_max) => mask.flat[p]
              /\ rvals.flat[p] < r_min => ~mask.flat[p]
              /\ rvals.flat[p] > r_max => ~mask.flat[p]
              /\ mask.flat[p] <=> InAnnulus(p)

\* A mask with a pixel on each edge of the annulus, one strictly inside, one
\* inside the inner edge and one beyond the outer edge.
MaskIsAnnulusWitness ==
    /\ Masked
    /\ r_min < r_max
    /\ \E p \in 1..NPix : rvals.flat[p] = r_min /\ mask.flat[p]
    /\ \E p \in 1..NPix : rvals.flat[p] = r_max /\ mask.flat[p]
    /\ \E p \in 1..NPix : rvals.flat[p] < r_min /\ ~mask.flat[p]
    /\ \E p \in 1..NPix : rvals.flat[p] > r_max /\ ~mask.flat[p]

-----------------------------------------------------------------------------
(* C4 *)

-----------------------------------------------------------------------------
(* C5 *)

-----------------------------------------------------------------------------
(* C6 *)

\* The rest frequency, nu = cube.header['restfreq']
RestFreq == cube.header.restfreq

\* C6: the conversion maps axis value f to c * (nu - f) / nu: it keeps the
\* number of entries, sends f = nu to 0 and reverses the order.
FrequencyToVelocity ==
    (pc = "done" /\ in_frequency) =>
        /\ Len(velax.flat) = cube.header.naxis3
        /\ \A i \in 0..(cube.header.naxis3 - 1) :
              /\ FracEq(velax.flat[i + 1],
                        [num |-> LightSpeed * (RestFreq - AxisValue(i)), den |-> RestFreq])
              /\ AxisValue(i) = RestFreq => velax.flat[i + 1].num = 0
              /\ \A j \in 0..(cube.header.naxis3 - 1) :
                    AxisValue(i) < AxisValue(j) =>
                        FracLess(velax.flat[j + 1], velax.flat[i + 1])

\* A converted axis with a channel at the rest frequency and two channels
\* of different frequency.
FrequencyToVelocityWitness ==
    /\ pc = "done"
    /\ in_frequency
    /\ Len(velax.flat) = cube.header.naxis3
    /\ \E i \in 0..(cube.header.naxis3 - 1) : AxisValue(i) = RestFreq
    /\ \E i, j \in 0..(cube.header.naxis3 - 1) : AxisValue(i) < AxisValue(j)

-----------------------------------------------------------------------------
(* C7 *)

\* C7: for every k, theta[k] and the k-th spectrum come from the same
\* pixel, the k-th pixel of the annulus in row-major order.
PerPixelAligned ==
    Applied =>
        /\ Bound(theta)
        /\ Len(theta.flat) = Len(Annulus)
        /\ spectra.shape = <<Len(Annulus), NChan>>
        /\ \A k \in 1..Len(Annulus) :
              /\ theta.flat[k] = tvals.flat[Annulus[k]]
              /\ \A c \in 1..NChan : At(spectra, k, c) = Voxel(c, Annulus[k])

-----------------------------------------------------------------------------
(* C8 *)

-----------------------------------------------------------------------------
(* C9 *)

\* C9: with no pixel in the annulus nothing is raised, theta has length 0,
\* spectra has first dimension 0 and velax has length naxis3.
EmptyAnnulusIsEmpty ==
    (pc = "done" /\ Len(Annulus) = 0) =>
        /\ \A p \in 1..NPix : ~mask.flat[p]
        /\ raised = NoneRaised
        /\ Bound(theta)
        /\ Len(theta.flat) = 0
        /\ Ndim(spectra) = 2
        /\ spectra.shape[1] = 0
        /\ Len(velax.flat) = cube.header.naxis3

=============================================================================
